---- MODULE Spec2Model ----
(***************************************************************************)
(* The chart-dependency update action (update-chart-dependency): the YAML  *)
(* dependency patcher, the chart directory scanner, the change aggregator  *)
(* and the remote publish driver, in the three variants of run() that the  *)
(* sources hold:                                                           *)
(*   "main"   actions/update-chart-dependency/main.ts                      *)
(*            (prefix filter, one pull request, no per-file handler)       *)
(*   "prefix" lint-staged.config.mjs lines 503-979                         *)
(*            (prefix filter, one pull request, per-file handler)          *)
(*   "target" lint-staged.config.mjs lines 13-501                          *)
(*            (target-repo input, recursive scan, one pull request per     *)
(*            changed directory, per-file handler)                         *)
(* Strings whose parts the code inspects (directory names, paths, the      *)
(* target-repo input) are sequences of symbols; a symbol is one character, *)
(* or one of the fixed words "Chart", "helmfile", "yaml", "yml".           *)
(***************************************************************************)
EXTENDS Integers, Sequences, FiniteSets, TLC

Variants == {"main", "target", "prefix"}

Undefined == [t |-> "undefined"]

(***************************************************************************)
(* String helpers (String.prototype.startsWith / split / trim / includes, *)
(* path.join).                                                             *)
(***************************************************************************)
StartsWith(s, p) ==
  /\ Len(p) =< Len(s)
  /\ \A i \in 1..Len(p) : s[i] = p[i]

Includes(s, sym) == \E i \in 1..Len(s) : s[i] = sym

\* index of the first occurrence of sym in s at or after position i, else 0
RECURSIVE IndexFrom(_, _, _)
IndexFrom(s, sym, i) ==
  IF i > Len(s) THEN 0
  ELSE IF s[i] = sym THEN i
  ELSE IndexFrom(s, sym, i + 1)

\* s.split(sep): the sequence of the segments of s between separators
RECURSIVE Split(_, _)
Split(s, sep) ==
  LET k == IndexFrom(s, sep, 1) IN
  IF k = 0 THEN <<s>>
  ELSE <<SubSeq(s, 1, k - 1)>> \o Split(SubSeq(s, k + 1, Len(s)), sep)

\* s.trim() = '' : every character of s is white space
IsBlank(s) == \A i \in 1..Len(s) : s[i] = " "

\* the path of a directory from the workspace root, joined with '/'
RECURSIVE JoinNames(_)
JoinNames(path) ==
  IF Len(path) = 1 THEN path[1]
  ELSE path[1] \o <<"/">> \o JoinNames(Tail(path))

\* path.join(a, b) of two relative, non-empty paths
PathJoin(a, b) == a \o <<"/">> \o b

(***************************************************************************)
(* Module-level constants of the action.                                   *)
(***************************************************************************)
CHART_FILE_NAME == "Chart"
HELMFILE_NAME == "helmfile"
DEFAULT_BASE_BRANCH == "master"
PR_TITLE_PREFIX(v) ==
  IF v = "main" THEN "deps: update Helm chart dependencies: "
  ELSE "deps: update Helm dependencies: "

\* the four basenames findChartFiles probes, in the order it probes them
DescriptorNames ==
  << <<"Chart", ".", "yaml">>, <<"Chart", ".", "yml">>,
     <<"helmfile", ".", "yaml">>, <<"helmfile", ".", "yml">> >>

(***************************************************************************)
(* YAML documents.  A text is what is on disk: its syntax (well-formed or  *)
(* not), its layout (comments, quoting, flow style: everything the parsed  *)
(* value does not keep) and the value it denotes.  yaml.parse keeps the    *)
(* value only; yaml.stringify writes a value in the library's own layout.  *)
(***************************************************************************)
ParseError == [kind |-> "parseError"]

YamlParse(text) == IF text.syntax = "bad" THEN ParseError ELSE text.doc

YamlStringify(doc) == [syntax |-> "ok", layout |-> "canonical", doc |-> doc]

Str(s) == [t |-> "str", v |-> s]
Num(n) == [t |-> "num", v |-> n]
Missing == [t |-> "missing"]

IsString(val) == val.t = "str"

\* Array.isArray(field)
IsArray(field) == field.t = "list"

NoUpdate ==
  [kind |-> "ok", updated |-> FALSE, oldVersion |-> Undefined,
   newVersion |-> Undefined, newContent |-> Undefined]

Throw(msg) == [kind |-> "throw", msg |-> msg]

(***************************************************************************)
(* The loop of updateChartYamlDependency over chart.dependencies.  An      *)
(* entry that is null makes `dep.name` raise a TypeError; a scalar entry   *)
(* has no properties.  st = [items, old, updated, threw].                  *)
(***************************************************************************)
\* a loop that rewrites every entry named like the target, whatever its version
ChartLoopStepAlways(st, dep, dependencyName, version) ==
  IF st.threw THEN st
  ELSE IF dep.t = "null" THEN [st EXCEPT !.threw = TRUE]
  ELSE IF /\ dep.t = "map"
          /\ IsString(dep.name) /\ IsString(dep.version)
          /\ dep.name.v = dependencyName
       THEN [st EXCEPT !.items = Append(@, [dep EXCEPT !.version = Str(version)]),
                       !.old = dep.version,
                       !.updated = TRUE]
  ELSE [st EXCEPT !.items = Append(@, dep)]

ChartLoopStep(st, dep, dependencyName, version) ==
  IF st.threw THEN st
  ELSE IF dep.t = "null" THEN [st EXCEPT !.threw = TRUE]
  ELSE IF /\ dep.t = "map"
          /\ IsString(dep.name) /\ IsString(dep.version)
          /\ dep.name.v = dependencyName /\ dep.version.v # version
       THEN [st EXCEPT !.items = Append(@, [dep EXCEPT !.version = Str(version)]),
                       !.old = dep.version,
                       !.updated = TRUE]
  ELSE [st EXCEPT !.items = Append(@, dep)]

RECURSIVE ChartLoop(_, _, _, _, _)
ChartLoop(st, items, i, dependencyName, version) ==
  IF i > Len(items) THEN st
  ELSE ChartLoop(ChartLoopStep(st, items[i], dependencyName, version),
                 items, i + 1, dependencyName, version)

\* the loop of updateHelmfileReleaseVersion: every access is guarded
HelmLoopStep(st, rel, releaseName, version) ==
  IF /\ rel.t = "map"
     /\ rel.name.t # "missing" /\ IsString(rel.name)
     /\ rel.version.t # "missing" /\ IsString(rel.version)
     /\ rel.name.v = releaseName /\ rel.version.v # version
  THEN [st EXCEPT !.items = Append(@, [rel EXCEPT !.version = Str(version)]),
                  !.old = rel.version,
                  !.updated = TRUE]
  ELSE [st EXCEPT !.items = Append(@, rel)]

RECURSIVE HelmLoop(_, _, _, _, _)
HelmLoop(st, items, i, releaseName, version) ==
  IF i > Len(items) THEN st
  ELSE HelmLoop(HelmLoopStep(st, items[i], releaseName, version),
                items, i + 1, releaseName, version)

LoopStart == [items |-> <<>>, old |-> Undefined, updated |-> FALSE, threw |-> FALSE]

Updated(v, old, version, doc) ==
  [kind |-> "ok", updated |-> TRUE,
   oldVersion |-> old,
   newVersion |-> IF v = "main" THEN Str(version) ELSE Undefined,
   newContent |-> YamlStringify(doc)]

(***************************************************************************)
(* updateChartYamlDependency(filePath, dependencyName, version), on the    *)
(* file found at filePath: file = [readable, text].                        *)
(***************************************************************************)
\* yaml.parse outside the try block: a malformed text raises to the caller
updateChartYamlDependencyNoTry(v, file, dependencyName, version) ==
  IF ~file.readable THEN Throw("EACCES")
  ELSE
    LET chart == YamlParse(file.text) IN
    IF chart.kind = "parseError" THEN Throw("YAMLParseError")
    ELSE IF chart.kind = "null" THEN Throw("TypeError")
    ELSE IF chart.kind # "map" THEN NoUpdate
    ELSE IF ~IsArray(chart.dependencies) THEN NoUpdate
    ELSE IF v = "target" /\ Len(chart.dependencies.items) = 0 THEN NoUpdate
    ELSE
      LET st == ChartLoop(LoopStart, chart.dependencies.items, 1,
                          dependencyName, version) IN
      IF st.threw THEN Throw("TypeError")
      ELSE IF ~st.updated THEN NoUpdate
      ELSE Updated(v, st.old, version,
                   [chart EXCEPT !.dependencies.items = st.items])

updateChartYamlDependency(v, file, dependencyName, version) ==
  IF ~file.readable THEN Throw("EACCES")
  ELSE
    LET chart == YamlParse(file.text) IN
    IF chart.kind = "parseError" THEN NoUpdate
    ELSE IF chart.kind = "null" THEN Throw("TypeError")
    ELSE IF chart.kind # "map" THEN NoUpdate
    ELSE IF ~IsArray(chart.dependencies) THEN NoUpdate
    ELSE IF v = "target" /\ Len(chart.dependencies.items) = 0 THEN NoUpdate
    ELSE
      LET st == ChartLoop(LoopStart, chart.dependencies.items, 1,
                          dependencyName, version) IN
      IF st.threw THEN Throw("TypeError")
      ELSE IF ~st.updated THEN NoUpdate
      ELSE Updated(v, st.old, version,
                   [chart EXCEPT !.dependencies.items = st.items])

updateHelmfileReleaseVersion(v, file, releaseName, version) ==
  IF ~file.readable THEN Throw("EACCES")
  ELSE
    LET helmfile == YamlParse(file.text) IN
    IF helmfile.kind = "parseError" THEN NoUpdate
    ELSE IF helmfile.kind # "map" THEN NoUpdate
    ELSE IF ~IsArray(helmfile.releases) THEN NoUpdate
    ELSE
      LET st == HelmLoop(LoopStart, helmfile.releases.items, 1,
                         releaseName, version) IN
      IF ~st.updated THEN NoUpdate
      ELSE Updated(v, st.old, version,
                   [helmfile EXCEPT !.releases.items = st.items])

(***************************************************************************)
(* The workspace on disk: disk = [dirs, plain, files].  dirs is the set of *)
(* directories, each the sequence of the names on its path from the        *)
(* workspace root; plain is the set of names of regular files of the root  *)
(* that are no descriptors; files maps <<directory, basename>> to the      *)
(* descriptor file found there.  fs.readdirSync lists a directory in name  *)
(* order.                                                                  *)
(***************************************************************************)
NameA == <<"a">>
NameAB == <<"a", "b">>
NameB == <<"b">>
NameOrder == <<NameA, NameAB, NameB>>

IsDescriptorAt(d, dir, base) == <<dir, base>> \in DOMAIN d.files

\* fs.readdirSync(dir, {withFileTypes: true}): the Dirents of dir
ReadDir(d, dir) ==
  LET Here(n) == Append(dir, n) \in d.dirs \/ (dir = <<>> /\ n \in d.plain)
      names == SelectSeq(NameOrder, Here)
      descs == SelectSeq(DescriptorNames, LAMBDA b : IsDescriptorAt(d, dir, b))
  IN [i \in 1..Len(names) |->
        [name |-> names[i], isDirectory |-> Append(dir, names[i]) \in d.dirs]]
     \o [i \in 1..Len(descs) |-> [name |-> descs[i], isDirectory |-> FALSE]]

\* findChartFiles(workspace, chartDir): the descriptors that exist in
\* workspace/chartDir, in the order Chart.yaml, Chart.yml, helmfile.yaml, helmfile.yml
\* a probe that forgets the 'yml' extension
findChartFilesYamlOnly(d, workspace, chartDir) ==
  LET dir == Append(workspace, chartDir)
      found == SelectSeq(DescriptorNames,
                         LAMBDA b : b[3] = "yaml" /\ IsDescriptorAt(d, dir, b))
  IN [i \in 1..Len(found) |-> [dir |-> dir, base |-> found[i]]]

findChartFiles(d, workspace, chartDir) ==
  LET dir == Append(workspace, chartDir)
      found == SelectSeq(DescriptorNames, LAMBDA b : IsDescriptorAt(d, dir, b))
  IN [i \in 1..Len(found) |-> [dir |-> dir, base |-> found[i]]]

EntriesOf(chartDir, files) ==
  [i \in 1..Len(files) |-> [chartDir |-> chartDir, absFilePath |-> files[i]]]

\* getChartFilesWithDirs(workspace, chartPrefix) of main.ts and of the prefix
\* variant: first-level directories only, filtered by the prefix
\* a scan that ignores the prefix filter
RECURSIVE ScanFlatNoPrefix(_, _, _, _)
ScanFlatNoPrefix(d, dirents, i, chartPrefix) ==
  IF i > Len(dirents) THEN <<>>
  ELSE
    LET dirent == dirents[i]
        rest == ScanFlatNoPrefix(d, dirents, i + 1, chartPrefix)
    IN IF ~dirent.isDirectory THEN rest
       ELSE EntriesOf(dirent.name, findChartFiles(d, <<>>, dirent.name)) \o rest

RECURSIVE ScanFlat(_, _, _, _)
ScanFlat(d, dirents, i, chartPrefix) ==
  IF i > Len(dirents) THEN <<>>
  ELSE
    LET dirent == dirents[i]
        hasPrefix == chartPrefix = <<>> \/ StartsWith(dirent.name, chartPrefix)
        rest == ScanFlat(d, dirents, i + 1, chartPrefix)
    IN IF ~dirent.isDirectory THEN rest
       ELSE IF ~hasPrefix THEN rest
       ELSE EntriesOf(dirent.name, findChartFiles(d, <<>>, dirent.name)) \o rest

\* getChartFilesWithDirs(workspace) of the target variant: every directory at
\* every depth; chartDir is the path from the root, joined with '/'
RECURSIVE ScanDeep(_, _)
RECURSIVE ScanDeepFrom(_, _, _, _)
ScanDeepFrom(d, workspace, dirents, i) ==
  IF i > Len(dirents) THEN <<>>
  ELSE
    LET dirent == dirents[i]
        rest == ScanDeepFrom(d, workspace, dirents, i + 1)
        sub == ScanDeep(d, Append(workspace, dirent.name))
    IN IF ~dirent.isDirectory THEN rest
       ELSE EntriesOf(dirent.name, findChartFiles(d, workspace, dirent.name))
            \o [k \in 1..Len(sub) |->
                  [chartDir |-> PathJoin(dirent.name, sub[k].chartDir),
                   absFilePath |-> sub[k].absFilePath]]
            \o rest

ScanDeep(d, workspace) == ScanDeepFrom(d, workspace, ReadDir(d, workspace), 1)

getChartFilesWithDirs(v, d, chartPrefix) ==
  IF v = "target" THEN ScanDeep(d, <<>>)
  ELSE ScanFlat(d, ReadDir(d, <<>>), 1, chartPrefix)

(***************************************************************************)
(* The state of one run of run().                                          *)
(*   variant, inputs, disk   which run(), its inputs, the workspace        *)
(*   run                     "first" in the first invocation of the        *)
(*                           action, "merged" in an invocation after its   *)
(*                           pull requests were merged, "again" in an      *)
(*                           invocation on the unchanged workspace         *)
(*   pc                      the statement run() is at                     *)
(*   coords                  owner and repo of the remote calls            *)
(*   entries, idx            chartFilesWithDirs and the aggregation index  *)
(*   fileUpdates             the staged file changes (an array)            *)
(*   updatedCharts           the changed directories (a Set, in insertion  *)
(*                           order)                                        *)
(*   dirIdx                  target variant: index into updatedCharts      *)
(*   chartFileUpdates        the file changes handed to the publish steps  *)
(*   branchName, fileIdx, fileSha   locals of the publish steps            *)
(*   calls, results          the remote calls issued, and their outcomes   *)
(*                           (a call is outstanding while it has no        *)
(*                           outcome yet)                                  *)
(*   refs, commits, prs      what the remote holds because of this run     *)
(*   infos, warnings, failures   core.info / core.warning / core.setFailed *)
(*   thrown                  the exceptions raised and not handled by a    *)
(*                           per-file or per-entry handler (history)       *)
(*   listed, reads           fs.readdirSync / fs.readFileSync calls made   *)
(*   pin, pout               input and result of one patcher call          *)
(***************************************************************************)
VARIABLES variant, inputs, disk, run, pc, coords, entries, idx, fileUpdates,
          updatedCharts, dirIdx, chartFileUpdates, branchName, fileIdx,
          fileSha, calls, results, refs, commits, prs, infos, warnings,
          failures, thrown, listed, reads, pin, pout

envVars == <<variant, inputs, disk, run>>
aggVars == <<entries, idx, fileUpdates, updatedCharts>>
pubVars == <<dirIdx, chartFileUpdates, branchName, fileIdx, fileSha>>
remVars == <<calls, results, refs, commits, prs>>
outVars == <<infos, warnings, failures, thrown>>
fsVars == <<listed, reads>>
patchVars == <<pin, pout>>
vars == <<envVars, pc, coords, aggVars, pubVars, remVars, outVars, fsVars, patchVars>>

BOT == [name |-> "github-actions[bot]",
        email |-> "github-actions[bot]@users.noreply.github.com"]

\* getInputs(): getInput('branch') || DEFAULT_BASE_BRANCH
BaseBranch == IF inputs.branch = "" THEN DEFAULT_BASE_BRANCH ELSE inputs.branch

\* githubContext.repo of main.ts and of the prefix variant
ContextRepo == [owner |-> <<"c">>, repo |-> <<"r">>]

Outstanding == Len(calls) - Len(results)

(***************************************************************************)
(* The top-level catch of run(): setFailed with the error's message.       *)
(***************************************************************************)
\* a guard that ends the run without reporting the failure
TopLevelCatchSilent(msg) ==
  /\ failures' = failures
  /\ pc' = "done"

TopLevelCatch(msg) ==
  /\ failures' = Append(failures, [text |-> "Action failed with error: ", error |-> msg])
  /\ pc' = "done"

\* an exception raised inside the try block of run() and handled nowhere below it
Raise(msg) ==
  /\ thrown' = Append(thrown, [error |-> msg, at |-> Len(calls)])
  /\ TopLevelCatch(msg)

\* a check that forgets the token
MissingInputsNoToken(v, in) ==
  \/ in.chartName = ""
  \/ in.version = ""
  \/ (v = "target" /\ in.targetRepo = <<>>)

\* run(): the check of the required inputs
MissingInputs(v, in) ==
  \/ in.chartName = ""
  \/ in.version = ""
  \/ in.githubToken = ""
  \/ (v = "target" /\ in.targetRepo = <<>>)

ValidateInputs ==
  /\ pc = "start"
  /\ IF MissingInputs(variant, inputs)
     THEN /\ failures' = Append(failures, [text |-> "Missing required inputs", error |-> ""])
          /\ pc' = "done"
          /\ UNCHANGED coords
     ELSE IF variant = "target"
     THEN /\ pc' = "parseRepo"
          /\ UNCHANGED <<failures, coords>>
     ELSE /\ pc' = "scan"
          /\ coords' = ContextRepo
          /\ UNCHANGED failures
  /\ UNCHANGED <<envVars, aggVars, pubVars, remVars, infos, warnings, thrown,
                 fsVars, patchVars>>

\* const [owner, repo] = targetRepo.split('/'), with the two presence checks
RepoParts(targetRepo) ==
  LET parts == Split(targetRepo, "/") IN
  [owner |-> parts[1],
   hasRepo |-> Len(parts) >= 2,
   repo |-> IF Len(parts) >= 2 THEN parts[2] ELSE <<>>]

InvalidRepo(targetRepo) ==
  LET p == RepoParts(targetRepo)
      isOwnerMissing == IsBlank(p.owner)
      isRepoMissing == ~p.hasRepo \/ IsBlank(p.repo)
  IN isOwnerMissing \/ isRepoMissing

ParseTargetRepo ==
  /\ pc = "parseRepo"
  /\ IF InvalidRepo(inputs.targetRepo)
     THEN /\ failures' = Append(failures, [text |-> "Invalid target-repo input", error |-> ""])
          /\ pc' = "done"
          /\ UNCHANGED coords
     ELSE /\ coords' = [owner |-> RepoParts(inputs.targetRepo).owner,
                         repo |-> RepoParts(inputs.targetRepo).repo]
          /\ pc' = "scan"
          /\ UNCHANGED failures
  /\ UNCHANGED <<envVars, aggVars, pubVars, remVars, infos, warnings, thrown,
                 fsVars, patchVars>>

NoChartsInfo == [text |-> "No charts required updating", dependency |-> inputs.chartName]

\* getChartFilesWithDirs and the early return on an empty result; readdirSync
\* may raise (the listing fails), which reaches the top-level catch
ScanWorkspace ==
  /\ pc = "scan"
  /\ listed' = listed + 1
  /\ \E listOk \in BOOLEAN :
       IF ~listOk
       THEN /\ Raise("ENOENT")
            /\ UNCHANGED <<entries, idx, infos>>
       ELSE LET found == getChartFilesWithDirs(variant, disk, inputs.chartPrefix) IN
            /\ entries' = found
            /\ idx' = 1
            /\ IF Len(found) = 0
               THEN /\ infos' = Append(infos, NoChartsInfo)
                    /\ pc' = "done"
               ELSE /\ pc' = "aggregate"
                    /\ UNCHANGED infos
            /\ UNCHANGED <<failures, thrown>>
  /\ UNCHANGED <<envVars, coords, fileUpdates, updatedCharts, pubVars, remVars,
                 warnings, reads, patchVars>>

(***************************************************************************)
(* The aggregation loop of run(): one step per entry of chartFilesWithDirs.*)
(***************************************************************************)
\* the dispatch on the file name
PatchEntry(v, d, entry, name, version) ==
  LET fileName == entry.absFilePath.base
      file == d.files[<<entry.absFilePath.dir, fileName>>]
  IN IF Includes(fileName, CHART_FILE_NAME)
     THEN updateChartYamlDependency(v, file, name, version)
     ELSE IF Includes(fileName, HELMFILE_NAME)
     THEN updateHelmfileReleaseVersion(v, file, name, version)
     ELSE [kind |-> "skip"]

RelFilePath(entry) == entry.chartDir \o <<"/">> \o entry.absFilePath.base

\* updateResult.updated && typeof newContent === 'string' && newContent.length > 0
IsStaged(res) == res.kind = "ok" /\ res.updated /\ res.newContent # Undefined

FileUpdate(v, entry, res) ==
  [path |-> RelFilePath(entry),
   content |-> res.newContent,
   oldVersion |-> IF v = "main" THEN Undefined ELSE res.oldVersion]

\* Set.prototype.add, keeping insertion order
SetAdd(seq, x) == IF \E i \in 1..Len(seq) : seq[i] = x THEN seq ELSE Append(seq, x)

\* a loop body that marks the directory of every descriptor it patched
\* without error, changed or not
ProcessEntryMarksAll ==
  /\ pc = "aggregate"
  /\ idx =< Len(entries)
  /\ LET entry == entries[idx]
         res == PatchEntry(variant, disk, entry, inputs.chartName, inputs.version)
     IN /\ reads' = IF res.kind = "skip" THEN reads ELSE reads + 1
        /\ IF res.kind = "throw"
           THEN /\ warnings' = Append(warnings,
                     [text |-> "Failed to process chart", chartDir |-> entry.chartDir,
                      error |-> res.msg])
                /\ UNCHANGED <<fileUpdates, updatedCharts>>
           ELSE /\ fileUpdates' = IF IsStaged(res)
                                  THEN Append(fileUpdates, FileUpdate(variant, entry, res))
                                  ELSE fileUpdates
                /\ updatedCharts' = SetAdd(updatedCharts, entry.chartDir)
                /\ UNCHANGED warnings
  /\ idx' = idx + 1
  /\ UNCHANGED <<envVars, pc, coords, entries, pubVars, remVars, infos, failures,
                 thrown, listed, patchVars>>

\* a loop body that writes the patched content back to the file it read
ProcessEntryWriteBack ==
  /\ pc = "aggregate"
  /\ idx =< Len(entries)
  /\ LET entry == entries[idx]
         res == PatchEntry(variant, disk, entry, inputs.chartName, inputs.version)
     IN /\ reads' = IF res.kind = "skip" THEN reads ELSE reads + 1
        /\ IF res.kind = "throw"
           THEN /\ warnings' = Append(warnings,
                     [text |-> "Failed to process chart", chartDir |-> entry.chartDir,
                      error |-> res.msg])
                /\ UNCHANGED <<fileUpdates, updatedCharts, disk>>
           ELSE IF IsStaged(res)
           THEN /\ fileUpdates' = Append(fileUpdates, FileUpdate(variant, entry, res))
                /\ updatedCharts' = SetAdd(updatedCharts, entry.chartDir)
                /\ disk' = [disk EXCEPT
                              !.files[<<entry.absFilePath.dir, entry.absFilePath.base>>] =
                                 [readable |-> TRUE, text |-> res.newContent]]
                /\ UNCHANGED warnings
           ELSE UNCHANGED <<fileUpdates, updatedCharts, warnings, disk>>
  /\ idx' = idx + 1
  /\ UNCHANGED <<variant, inputs, run, pc, coords, entries, pubVars, remVars, infos,
                 failures, thrown, listed, patchVars>>

\* a loop body without the try/catch: the error of one entry ends the run
ProcessEntryNoCatch ==
  /\ pc = "aggregate"
  /\ idx =< Len(entries)
  /\ LET entry == entries[idx]
         res == PatchEntry(variant, disk, entry, inputs.chartName, inputs.version)
     IN /\ reads' = IF res.kind = "skip" THEN reads ELSE reads + 1
        /\ IF res.kind = "throw"
           THEN /\ Raise(res.msg)
                /\ UNCHANGED <<fileUpdates, updatedCharts>>
           ELSE IF IsStaged(res)
           THEN /\ fileUpdates' = Append(fileUpdates, FileUpdate(variant, entry, res))
                /\ updatedCharts' = SetAdd(updatedCharts, entry.chartDir)
                /\ UNCHANGED <<pc, failures, thrown>>
           ELSE UNCHANGED <<fileUpdates, updatedCharts, pc, failures, thrown>>
  /\ idx' = idx + 1
  /\ UNCHANGED <<envVars, coords, entries, pubVars, remVars, infos, warnings,
                 listed, patchVars>>

ProcessEntry ==
  /\ pc = "aggregate"
  /\ idx =< Len(entries)
  /\ LET entry == entries[idx]
         res == PatchEntry(variant, disk, entry, inputs.chartName, inputs.version)
     IN /\ reads' = IF res.kind = "skip" THEN reads ELSE reads + 1
        /\ IF res.kind = "throw"
           THEN /\ warnings' = Append(warnings,
                     [text |-> "Failed to process chart", chartDir |-> entry.chartDir,
                      error |-> res.msg])
                /\ UNCHANGED <<fileUpdates, updatedCharts>>
           ELSE IF IsStaged(res)
           THEN /\ fileUpdates' = Append(fileUpdates, FileUpdate(variant, entry, res))
                /\ updatedCharts' = SetAdd(updatedCharts, entry.chartDir)
                /\ UNCHANGED warnings
           ELSE UNCHANGED <<fileUpdates, updatedCharts, warnings>>
  /\ idx' = idx + 1
  /\ UNCHANGED <<envVars, pc, coords, entries, pubVars, remVars, infos, failures,
                 thrown, listed, patchVars>>

\* `update-helm-chart${chartsLabel}-${name}-${version}` of main.ts and the prefix
\* variant; the label is `-${prefix}*` for a non-empty prefix
SingleBranchName(in) ==
  [base |-> "update-helm-chart",
   label |-> in.chartPrefix,
   name |-> in.chartName, version |-> in.version, chartDir |-> <<>>]

\* `update-helm-chart-${chartName}-${version}-${chartDir}` of the target variant
DirBranchName(in, chartDir) ==
  [base |-> "update-helm-chart",
   label |-> <<>>,
   name |-> in.chartName, version |-> in.version, chartDir |-> chartDir]

\* a run that publishes even when nothing changed
NothingToPublishNever(charts) == FALSE

\* updatedCharts.size === 0
NothingToPublish(charts) == Len(charts) = 0

\* the statement after the loop: nothing changed, or go on to publish
FinishAggregation ==
  /\ pc = "aggregate"
  /\ idx > Len(entries)
  /\ IF NothingToPublish(updatedCharts)
     THEN /\ infos' = Append(infos, NoChartsInfo)
          /\ pc' = "done"
          /\ UNCHANGED pubVars
     ELSE IF variant = "target"
     THEN /\ pc' = "nextDir"
          /\ dirIdx' = 1
          /\ UNCHANGED <<infos, chartFileUpdates, branchName, fileIdx, fileSha>>
     ELSE /\ pc' = "getRef"
          /\ branchName' = SingleBranchName(inputs)
          /\ chartFileUpdates' = fileUpdates
          /\ UNCHANGED <<infos, dirIdx, fileIdx, fileSha>>
  /\ UNCHANGED <<envVars, coords, aggVars, remVars, warnings, failures, thrown,
                 fsVars, patchVars>>

\* target variant: fileUpdates.filter((fu) => fu.path.startsWith(`${chartDir}/`))
UpdatesOfDir(updates, chartDir) ==
  SelectSeq(updates, LAMBDA fu : StartsWith(fu.path, chartDir \o <<"/">>))

\* target variant: the head of `for (const chartDir of updatedCharts)`
NextChartDir ==
  /\ pc = "nextDir"
  /\ IF dirIdx > Len(updatedCharts)
     THEN /\ pc' = "done"
          /\ UNCHANGED <<pubVars, warnings>>
     ELSE LET chartDir == updatedCharts[dirIdx]
              mine == UpdatesOfDir(fileUpdates, chartDir)
          IN IF Len(mine) = 0
             THEN /\ warnings' = Append(warnings,
                       [text |-> "No file updates found for chart directory",
                        chartDir |-> chartDir, error |-> ""])
                  /\ dirIdx' = dirIdx + 1
                  /\ UNCHANGED <<pc, chartFileUpdates, branchName, fileIdx, fileSha>>
             ELSE /\ chartFileUpdates' = mine
                  /\ branchName' = DirBranchName(inputs, chartDir)
                  /\ pc' = "getRef"
                  /\ UNCHANGED <<dirIdx, fileIdx, fileSha, warnings>>
  /\ UNCHANGED <<envVars, coords, aggVars, remVars, infos, failures, thrown,
                 fsVars, patchVars>>

(***************************************************************************)
(* The publish steps.  Every remote call is two steps: the call is issued  *)
(* (appended to calls) and, later, its promise settles (its outcome is     *)
(* appended to results); the remote decides the outcome.                   *)
(***************************************************************************)
Call(op, args) == [op |-> op, owner |-> coords.owner, repo |-> coords.repo, args |-> args]

\* createBranch: octokit.rest.git.getRef of the base branch
IssueGetRef ==
  /\ pc = "getRef"
  /\ calls' = Append(calls, Call("getRef", [ref |-> <<"heads/", BaseBranch>>]))
  /\ pc' = "awaitGetRef"
  /\ UNCHANGED <<envVars, coords, aggVars, pubVars, results, refs, commits, prs,
                 outVars, fsVars, patchVars>>

OnGetRef ==
  /\ pc = "awaitGetRef"
  /\ \E ok \in BOOLEAN :
       /\ results' = Append(results, IF ok THEN "ok" ELSE "error")
       /\ IF ok
          THEN /\ pc' = "createRef"
               /\ UNCHANGED <<failures, thrown>>
          ELSE Raise("getRef failed")
  /\ UNCHANGED <<envVars, coords, aggVars, pubVars, calls, refs, commits, prs,
                 infos, warnings, fsVars, patchVars>>

\* createBranch: octokit.rest.git.createRef of the new branch at the base sha
IssueCreateRef ==
  /\ pc = "createRef"
  /\ calls' = Append(calls, Call("createRef",
                 [ref |-> <<"refs/heads/", branchName>>, sha |-> "baseSha"]))
  /\ pc' = "awaitCreateRef"
  /\ UNCHANGED <<envVars, coords, aggVars, pubVars, results, refs, commits, prs,
                 outVars, fsVars, patchVars>>

\* the remote rejects the creation of a reference that exists
CreateRefOutcomes == IF branchName \in refs THEN {FALSE} ELSE BOOLEAN

\* a run that goes on to the files of a branch it could not create
OnCreateRefContinue ==
  /\ pc = "awaitCreateRef"
  /\ \E ok \in CreateRefOutcomes :
       /\ results' = Append(results, IF ok THEN "ok" ELSE "error")
       /\ refs' = IF ok THEN refs \cup {branchName} ELSE refs
       /\ fileIdx' = 1
       /\ pc' = "files"
       /\ UNCHANGED <<failures, thrown>>
  /\ UNCHANGED <<envVars, coords, aggVars, dirIdx, chartFileUpdates, branchName,
                 fileSha, calls, commits, prs, infos, warnings, fsVars, patchVars>>

OnCreateRef ==
  /\ pc = "awaitCreateRef"
  /\ \E ok \in CreateRefOutcomes :
       /\ results' = Append(results, IF ok THEN "ok" ELSE "error")
       /\ IF ok
          THEN /\ refs' = refs \cup {branchName}
               /\ fileIdx' = 1
               /\ pc' = "files"
               /\ UNCHANGED <<failures, thrown>>
          ELSE /\ Raise("createRef failed")
               /\ UNCHANGED <<refs, fileIdx>>
  /\ UNCHANGED <<envVars, coords, aggVars, dirIdx, chartFileUpdates, branchName,
                 fileSha, calls, commits, prs, infos, warnings, fsVars, patchVars>>

\* getFileSha: octokit.rest.repos.getContent of the file on the new branch
IssueGetContent ==
  /\ pc = "files"
  /\ fileIdx =< Len(chartFileUpdates)
  /\ calls' = Append(calls, Call("getContent",
                 [path |-> chartFileUpdates[fileIdx].path, ref |-> branchName]))
  /\ pc' = "awaitGetContent"
  /\ UNCHANGED <<envVars, coords, aggVars, pubVars, results, refs, commits, prs,
                 outVars, fsVars, patchVars>>

\* a look-up that answers a failed call with a sha it does not have
getFileShaGuessing(outcome) == IF outcome = "nosha" THEN Undefined ELSE Str("sha")

\* getFileSha: the sha of the response, undefined when the response has none
\* (a directory listing) or the call failed
getFileSha(outcome) == IF outcome = "sha" THEN Str("sha") ELSE Undefined

OnGetContent ==
  /\ pc = "awaitGetContent"
  /\ \E outcome \in {"sha", "nosha", "error"} :
       /\ results' = Append(results, outcome)
       /\ fileSha' = getFileSha(outcome)
  /\ pc' = "put"
  /\ UNCHANGED <<envVars, coords, aggVars, dirIdx, chartFileUpdates, branchName,
                 fileIdx, calls, refs, commits, prs, outVars, fsVars, patchVars>>

\* the commit message of updateFilesInBranch
CommitMessage(v, dependency, newVersion, fu) ==
  LET hasOldVersion == v # "main" /\ fu.oldVersion # Undefined /\ fu.oldVersion.v # "" IN
  [dependency |-> dependency,
   from |-> IF hasOldVersion THEN fu.oldVersion ELSE Undefined,
   to |-> newVersion,
   path |-> fu.path]

\* updateFilesInBranch: octokit.rest.repos.createOrUpdateFileContents
IssuePut ==
  /\ pc = "put"
  /\ LET fu == chartFileUpdates[fileIdx] IN
     calls' = Append(calls, Call("createOrUpdateFileContents",
                [path |-> fu.path,
                 message |-> CommitMessage(variant, inputs.chartName, inputs.version, fu),
                 content |-> fu.content,
                 branch |-> branchName,
                 sha |-> fileSha,
                 committer |-> BOT,
                 author |-> BOT]))
  /\ pc' = "awaitPut"
  /\ UNCHANGED <<envVars, coords, aggVars, pubVars, results, refs, commits, prs,
                 outVars, fsVars, patchVars>>

\* whether updateFilesInBranch wraps each file in try/catch
HasPerFileHandler(v) == v # "main"

OnPut ==
  /\ pc = "awaitPut"
  /\ \E ok \in BOOLEAN :
       /\ results' = Append(results, IF ok THEN "ok" ELSE "error")
       /\ IF ok
          THEN /\ commits' = Append(commits,
                     [branch |-> branchName, path |-> chartFileUpdates[fileIdx].path,
                      content |-> chartFileUpdates[fileIdx].content])
               /\ fileIdx' = fileIdx + 1
               /\ pc' = "files"
               /\ UNCHANGED <<warnings, failures, thrown>>
          ELSE IF HasPerFileHandler(variant)
          THEN /\ warnings' = Append(warnings,
                     [text |-> "Failed to update file",
                      chartDir |-> chartFileUpdates[fileIdx].path,
                      error |-> "put failed"])
               /\ fileIdx' = fileIdx + 1
               /\ pc' = "files"
               /\ UNCHANGED <<commits, failures, thrown>>
          ELSE /\ Raise("put failed")
               /\ UNCHANGED <<commits, fileIdx, warnings>>
  /\ UNCHANGED <<envVars, coords, aggVars, dirIdx, chartFileUpdates, branchName,
                 fileSha, calls, refs, prs, infos, fsVars, patchVars>>

\* path.split('/')[0]
FirstSegment(path) == Split(path, "/")[1]

\* the body of the pull request
PullRequestBody(v, dependencyName, newVersion, charts, updates) ==
  [dependency |-> dependencyName,
   version |-> newVersion,
   charts |->
     IF v = "main"
     THEN [i \in 1..Len(charts) |-> [chart |-> charts[i], oldVersion |-> Undefined]]
     ELSE [i \in 1..Len(updates) |->
             [chart |-> FirstSegment(updates[i].path),
              oldVersion |-> IF updates[i].oldVersion # Undefined
                                /\ updates[i].oldVersion.v # ""
                             THEN updates[i].oldVersion ELSE Undefined]]]

\* createPullRequest: octokit.rest.pulls.create
IssueCreatePullRequest ==
  /\ pc = "files"
  /\ fileIdx > Len(chartFileUpdates)
  /\ calls' = Append(calls, Call("createPullRequest",
                 [title |-> <<PR_TITLE_PREFIX(variant), inputs.chartName>>,
                  head |-> branchName,
                  base |-> BaseBranch,
                  body |-> PullRequestBody(variant, inputs.chartName, inputs.version,
                                           updatedCharts, chartFileUpdates)]))
  /\ pc' = "awaitPullRequest"
  /\ UNCHANGED <<envVars, coords, aggVars, pubVars, results, refs, commits, prs,
                 outVars, fsVars, patchVars>>

SuccessInfo(v) ==
  [text |-> "Successfully created PR", dependency |-> inputs.chartName,
   version |-> inputs.version,
   charts |-> IF v = "target" THEN <<updatedCharts[dirIdx]>> ELSE updatedCharts]

\* where run() goes after a pull request was opened
AfterPullRequest(v) == IF v = "target" THEN "nextDir" ELSE "done"

\* a per-directory loop that gives up a directory whose pull request failed
\* and goes on with the next one
OnCreatePullRequestSkipsDir ==
  /\ pc = "awaitPullRequest"
  /\ \E ok \in BOOLEAN :
       /\ results' = Append(results, IF ok THEN "ok" ELSE "error")
       /\ prs' = IF ok THEN Append(prs, calls[Len(calls)].args) ELSE prs
       /\ infos' = IF ok THEN Append(infos, SuccessInfo(variant)) ELSE infos
       /\ pc' = AfterPullRequest(variant)
       /\ dirIdx' = IF variant = "target" THEN dirIdx + 1 ELSE dirIdx
       /\ UNCHANGED <<failures, thrown>>
  /\ UNCHANGED <<envVars, coords, aggVars, chartFileUpdates, branchName, fileIdx,
                 fileSha, calls, refs, commits, warnings, fsVars, patchVars>>

OnCreatePullRequest ==
  /\ pc = "awaitPullRequest"
  /\ \E ok \in BOOLEAN :
       /\ results' = Append(results, IF ok THEN "ok" ELSE "error")
       /\ IF ok
          THEN /\ prs' = Append(prs, calls[Len(calls)].args)
               /\ infos' = Append(infos, SuccessInfo(variant))
               /\ pc' = AfterPullRequest(variant)
               /\ dirIdx' = IF variant = "target" THEN dirIdx + 1 ELSE dirIdx
               /\ UNCHANGED <<failures, thrown>>
          ELSE /\ Raise("createPullRequest failed")
               /\ UNCHANGED <<prs, infos, dirIdx>>
  /\ UNCHANGED <<envVars, coords, aggVars, chartFileUpdates, branchName, fileIdx,
                 fileSha, calls, refs, commits, warnings, fsVars, patchVars>>

(***************************************************************************)
(* The runs checked: descriptor files, workspaces and inputs.              *)
(***************************************************************************)
Entry(name, version) ==
  [t |-> "map", name |-> name, version |-> version, repository |-> Str("https://charts")]

MapDoc(deps, rels) ==
  [kind |-> "map", meta |-> "apiVersion: v2", dependencies |-> deps, releases |-> rels]

List(items) == [t |-> "list", items |-> items]

OnDisk(doc) == [readable |-> TRUE, text |-> [syntax |-> "ok", layout |-> "custom", doc |-> doc]]

\* the kinds of descriptor file of the run-level workspaces
FileOfKind(kind) ==
  LET stale == List(<<Entry(Str("other"), Str("1.0")), Entry(Str("db"), Str("1.0"))>>)
      fresh == List(<<Entry(Str("db"), Str("2.0"))>>)
  IN CASE kind = "stale" -> OnDisk(MapDoc(stale, stale))
       [] kind = "fresh" -> OnDisk(MapDoc(fresh, fresh))
       [] kind = "empty" -> OnDisk([kind |-> "null"])
       [] kind = "malformed" ->
            [readable |-> TRUE,
             text |-> [syntax |-> "bad", layout |-> "custom", doc |-> [kind |-> "null"]]]
       [] kind = "unreadable" -> [OnDisk(MapDoc(stale, stale)) EXCEPT !.readable = FALSE]

FileKinds == {"stale", "fresh", "empty", "malformed", "unreadable"}

Slots ==
  { << <<NameA>>, DescriptorNames[1] >>,
    << <<NameA>>, DescriptorNames[3] >>,
    << <<NameA, NameB>>, DescriptorNames[2] >>,
    << <<NameAB>>, DescriptorNames[4] >> }

\* a file that is no descriptor: its basename differs in case
OtherFile == << <<NameAB>>, <<"chart", ".", "yaml">> >>

DiskOf(kinds) ==
  [dirs |-> { <<NameA>>, <<NameA, NameB>>, <<NameAB>> },
   plain |-> {NameB},
   files |-> [s \in {t \in Slots : kinds[t] # "absent"} \cup {OtherFile} |->
                IF s = OtherFile THEN FileOfKind("stale") ELSE FileOfKind(kinds[s])]]

\* the kinds tried in each slot: every kind in the two descriptors of
\* directory a, four of them in the nested and in the last directory
SlotKinds(s) ==
  IF s[1] = <<NameA>> THEN FileKinds \cup {"absent"}
  ELSE IF s[1] = <<NameA, NameB>> THEN {"absent", "stale", "fresh", "malformed"}
  ELSE {"absent", "stale", "fresh", "unreadable"}

Disks ==
  { DiskOf(kinds) :
      kinds \in { k \in [Slots -> FileKinds \cup {"absent"}] :
                    \A s \in Slots : k[s] \in SlotKinds(s) } }

SampleDisk ==
  DiskOf([s \in Slots |-> IF s[1] = <<NameA>> THEN "stale" ELSE "absent"])

Prefixes == { <<>>, NameAB, NameB }

\* the longest target-repo input tried
MaxRepoLen == 5
RepoChars == {"o", "/", " "}
RepoInputs == UNION { [1..n -> RepoChars] : n \in 0..MaxRepoLen }

InitRun(v, in, d) ==
  /\ variant = v
  /\ inputs = in
  /\ disk = d
  /\ run = "first"
  /\ pc = "start"
  /\ coords = Undefined
  /\ entries = <<>>
  /\ idx = 1
  /\ fileUpdates = <<>>
  /\ updatedCharts = <<>>
  /\ dirIdx = 1
  /\ chartFileUpdates = <<>>
  /\ branchName = Undefined
  /\ fileIdx = 1
  /\ fileSha = Undefined
  /\ calls = <<>>
  /\ results = <<>>
  /\ refs = {}
  /\ commits = <<>>
  /\ prs = <<>>
  /\ infos = <<>>
  /\ warnings = <<>>
  /\ failures = <<>>
  /\ thrown = <<>>
  /\ listed = 0
  /\ reads = 0
  /\ pin = Undefined
  /\ pout = <<>>

\* every combination of present and absent inputs, on one workspace; the
\* prefix is the prefix input of the workflow (chart-prefix,
\* target-chart-prefix), which the target variant does not read
InitInputs ==
  \E v \in Variants, chartName \in {"", "db"}, version \in {"", "2.0"},
     githubToken \in {"", "token"}, branch \in {"", "dev"} :
    \E targetRepo \in IF v = "target" THEN RepoInputs ELSE {<<>>},
       chartPrefix \in Prefixes :
      InitRun(v, [chartName |-> chartName, version |-> version,
                  githubToken |-> githubToken, targetRepo |-> targetRepo,
                  chartPrefix |-> chartPrefix, branch |-> branch], SampleDisk)

\* every workspace, on inputs that pass the checks
InitWorkspaces ==
  \E v \in Variants, d \in Disks :
    \E chartPrefix \in IF v = "target" THEN {<<>>} ELSE Prefixes :
      InitRun(v, [chartName |-> "db", version |-> "2.0", githubToken |-> "token",
                  targetRepo |-> IF v = "target" THEN <<"o", "/", "o">> ELSE <<>>,
                  chartPrefix |-> chartPrefix, branch |-> ""], d)

Init == InitInputs \/ InitWorkspaces

Next ==
  \/ ValidateInputs
  \/ ParseTargetRepo
  \/ ScanWorkspace
  \/ ProcessEntry
  \/ FinishAggregation
  \/ NextChartDir
  \/ IssueGetRef
  \/ OnGetRef
  \/ IssueCreateRef
  \/ OnCreateRef
  \/ IssueGetContent
  \/ OnGetContent
  \/ IssuePut
  \/ OnPut
  \/ IssueCreatePullRequest
  \/ OnCreatePullRequest

Spec == Init /\ [][Next]_vars

(***************************************************************************)
(* Two invocations in a row: after a run that ended without failure and    *)
(* opened pull requests, the pull requests are merged, the workspace is    *)
(* checked out again with the merged contents, and the action is invoked   *)
(* again with the same inputs.  A new invocation is a new process: nothing *)
(* but the workspace is left of the first one.                             *)
(***************************************************************************)
\* the path of the file at <<directory, basename>> from the workspace root
PathOfKey(key) == JoinNames(key[1]) \o <<"/">> \o key[2]

\* the workspace once every commit of the run is merged
MergedDisk ==
  [disk EXCEPT !.files =
     [key \in DOMAIN disk.files |->
        IF \E c \in 1..Len(commits) : commits[c].path = PathOfKey(key)
        THEN [readable |-> TRUE,
              text |-> commits[CHOOSE c \in 1..Len(commits) :
                                 commits[c].path = PathOfKey(key)].content]
        ELSE disk.files[key]]]

MergeAndRerun ==
  /\ pc = "done"
  /\ run = "first"
  /\ failures = <<>>
  /\ Len(prs) >= 1
  /\ run' = "merged"
  /\ disk' = MergedDisk
  /\ pc' = "start"
  /\ coords' = Undefined
  /\ entries' = <<>>
  /\ idx' = 1
  /\ fileUpdates' = <<>>
  /\ updatedCharts' = <<>>
  /\ dirIdx' = 1
  /\ chartFileUpdates' = <<>>
  /\ branchName' = Undefined
  /\ fileIdx' = 1
  /\ fileSha' = Undefined
  /\ calls' = <<>>
  /\ results' = <<>>
  /\ commits' = <<>>
  /\ prs' = <<>>
  /\ infos' = <<>>
  /\ warnings' = <<>>
  /\ failures' = <<>>
  /\ thrown' = <<>>
  /\ listed' = 0
  /\ reads' = 0
  /\ UNCHANGED <<variant, inputs, refs, patchVars>>

\* the action is invoked again on the same workspace; the branches, commits
\* and pull requests of the first run are still on the remote
RunAgain ==
  /\ pc = "done"
  /\ run = "first"
  /\ run' = "again"
  /\ pc' = "start"
  /\ coords' = Undefined
  /\ entries' = <<>>
  /\ idx' = 1
  /\ fileUpdates' = <<>>
  /\ updatedCharts' = <<>>
  /\ dirIdx' = 1
  /\ chartFileUpdates' = <<>>
  /\ branchName' = Undefined
  /\ fileIdx' = 1
  /\ fileSha' = Undefined
  /\ calls' = <<>>
  /\ results' = <<>>
  /\ infos' = <<>>
  /\ warnings' = <<>>
  /\ failures' = <<>>
  /\ thrown' = <<>>
  /\ listed' = 0
  /\ reads' = 0
  /\ UNCHANGED <<variant, inputs, disk, refs, commits, prs, patchVars>>

NextRerun == Next \/ MergeAndRerun \/ RunAgain

RerunSpec == InitWorkspaces /\ [][NextRerun]_vars

(***************************************************************************)
(* The patcher on its own: one call of updateChartYamlDependency or        *)
(* updateHelmfileReleaseVersion on a descriptor file, and a second call on *)
(* the content the first one returned.  pin = [v, fn, file, name, version] *)
(* and pout is the sequence of the results so far.                         *)
(***************************************************************************)
\* the longest dependency / release list tried
MaxEntries == 3

NameValues == {Str("db"), Str("other"), Num(1), Missing}
VersionValues == {Str("1.0"), Str("1.5"), Str("2.0"), Num(1), Missing}

\* the entries tried: an empty item, a scalar item, the target's name with
\* every version, every other name with an old and with the target version
Entries ==
  {[t |-> "null"], [t |-> "scalar"]}
    \cup {Entry(Str("db"), ver) : ver \in VersionValues}
    \cup {Entry(n, ver) : n \in NameValues \ {Str("db")}, ver \in {Str("1.0"), Str("2.0")}}

Fields ==
  {Missing, [t |-> "scalar"]}
    \cup {List(items) : items \in UNION {[1..n -> Entries] : n \in 0..MaxEntries}}

\* a list the called function must leave alone (it belongs to the other file type)
OtherList == List(<<Entry(Str("db"), Str("1.0"))>>)

DocsFor(fn) ==
  {[kind |-> "null"], [kind |-> "scalar"], [kind |-> "list"]}
    \cup {IF fn = "chart" THEN MapDoc(f, OtherList) ELSE MapDoc(OtherList, f) : f \in Fields}

FilesFor(fn) ==
  {FileOfKind("malformed"), FileOfKind("unreadable")}
    \cup {OnDisk(doc) : doc \in DocsFor(fn)}

Patch(in, file) ==
  IF in.fn = "chart"
  THEN updateChartYamlDependency(in.v, file, in.name, in.version)
  ELSE updateHelmfileReleaseVersion(in.v, file, in.name, in.version)

InitPatch ==
  /\ \E v \in Variants, fn \in {"chart", "helmfile"} :
       \E file \in FilesFor(fn) :
         pin = [v |-> v, fn |-> fn, file |-> file, name |-> "db", version |-> "2.0"]
  /\ pout = <<>>
  /\ variant = "main"
  /\ inputs = Undefined
  /\ disk = Undefined
  /\ run = "first"
  /\ pc = "patch"
  /\ coords = Undefined
  /\ entries = <<>>
  /\ idx = 1
  /\ fileUpdates = <<>>
  /\ updatedCharts = <<>>
  /\ dirIdx = 1
  /\ chartFileUpdates = <<>>
  /\ branchName = Undefined
  /\ fileIdx = 1
  /\ fileSha = Undefined
  /\ calls = <<>>
  /\ results = <<>>
  /\ refs = {}
  /\ commits = <<>>
  /\ prs = <<>>
  /\ infos = <<>>
  /\ warnings = <<>>
  /\ failures = <<>>
  /\ thrown = <<>>
  /\ listed = 0
  /\ reads = 0

runVars == <<envVars, pc, coords, aggVars, pubVars, remVars, outVars, fsVars>>

\* the first call, on the file on disk
ApplyPatch ==
  /\ pc = "patch"
  /\ Len(pout) = 0
  /\ pout' = <<Patch(pin, pin.file)>>
  /\ UNCHANGED <<pin, runVars>>

\* a second call with the same name and version, on the content the first returned
ApplyAgain ==
  /\ pc = "patch"
  /\ Len(pout) = 1
  /\ pout[1].kind = "ok" /\ pout[1].updated
  /\ pout' = Append(pout, Patch(pin, [readable |-> TRUE, text |-> pout[1].newContent]))
  /\ UNCHANGED <<pin, runVars>>

NextPatch == ApplyPatch \/ ApplyAgain

PatchSpec == InitPatch /\ [][NextPatch]_vars

(***************************************************************************)
(* Vocabulary of the properties below.                                     *)
(***************************************************************************)
Done == pc = "done"

Settled(i) == i =< Len(results)
FailedCall(i) == Settled(i) /\ results[i] = "error"
IsOp(i, op) == calls[i].op = op
IsPut(i) == IsOp(i, "createOrUpdateFileContents")
CallBranch(i) ==
  IF IsOp(i, "getContent") THEN calls[i].args.ref
  ELSE IF IsPut(i) THEN calls[i].args.branch
  ELSE IF IsOp(i, "createPullRequest") THEN calls[i].args.head
  ELSE IF IsOp(i, "createRef") THEN calls[i].args.ref[2]
  ELSE Undefined

CallIdx == 1..Len(calls)
HasInfo(text) == \E i \in 1..Len(infos) : infos[i].text = text
HasWarning(text, about) ==
  \E i \in 1..Len(warnings) : warnings[i].text = text /\ warnings[i].chartDir = about
HasFailure(error) == \E i \in 1..Len(failures) : failures[i].error = error

\* the scan returned (it did not raise)
ScanReturned == listed > 0 /\ ~(\E i \in 1..Len(thrown) : thrown[i].error = "ENOENT")

AnyRequiredInputEmpty ==
  \/ inputs.chartName = ""
  \/ inputs.version = ""
  \/ inputs.githubToken = ""
  \/ (variant = "target" /\ Len(inputs.targetRepo) = 0)

\* C1: a run that stages no file change issues no remote call at all, does
\* not call setFailed, and ends with exactly one informational message.
C1_NoChangeNoRemoteCall ==
  /\ (fileUpdates = <<>> => calls = <<>>)
  /\ (Done /\ ScanReturned /\ fileUpdates = <<>>) =>
       /\ failures = <<>>
       /\ Len(infos) = 1
       /\ infos[1].text = "No charts required updating"

\* C1 witness: descriptors were found and read, none needed the update, the run ended
C1_Witness ==
  /\ Done /\ ScanReturned
  /\ Len(entries) > 0 /\ reads = Len(entries)
  /\ fileUpdates = <<>>
  /\ Len(infos) = 1

\* C2: branch creation, then file commits, then the pull request: no
\* get-content or create-or-update-content call on a branch before its
\* create-ref succeeded; create-pull-request only after every staged file
\* change has been attempted; no ref is deleted or reset.
C2_PublishOrder ==
  /\ \A i \in CallIdx :
       (IsOp(i, "getContent") \/ IsPut(i)) =>
         \E j \in 1..(i - 1) :
           /\ IsOp(j, "createRef") /\ CallBranch(j) = CallBranch(i)
           /\ results[j] = "ok"
  /\ \A i \in CallIdx :
       IsOp(i, "createPullRequest") =>
         \A k \in 1..Len(fileUpdates) :
           \E j \in 1..(i - 1) : IsPut(j) /\ calls[j].args.path = fileUpdates[k].path
  /\ \A i \in CallIdx :
       /\ calls[i].op \notin {"deleteRef", "updateRef"}
       /\ (IsOp(i, "createRef") /\ Settled(i) /\ results[i] = "ok")
            => CallBranch(i) \in refs

\* the file changes handed to the publish steps for branch b
StagedFor(b) ==
  IF variant = "target" THEN UpdatesOfDir(fileUpdates, b.chartDir) ELSE fileUpdates

\* C3: a failed create-or-update-content call for a file is caught and logged
\* as a warning, the other file changes are still attempted, the pull request
\* is still created, and the run does not fail because of it.
C3_FileFailureIsTolerated ==
  Done =>
    \A i \in CallIdx :
      (IsPut(i) /\ FailedCall(i)) =>
        /\ HasWarning("Failed to update file", calls[i].args.path)
        /\ ~HasFailure("put failed")
        /\ \A k \in 1..Len(StagedFor(CallBranch(i))) :
             \E j \in CallIdx :
               /\ IsPut(j) /\ CallBranch(j) = CallBranch(i)
               /\ calls[j].args.path = StagedFor(CallBranch(i))[k].path
        /\ \E j \in CallIdx :
             /\ j > i /\ IsOp(j, "createPullRequest")
             /\ CallBranch(j) = CallBranch(i)

\* C4: when get-ref or create-ref fails no file commit and no pull request is
\* attempted and the run fails with the error's message; when
\* create-pull-request fails the run fails and emits no success message; the
\* failing call is the last call of the run.
C4_StructuralFailureIsFatal ==
  Done =>
    \A i \in CallIdx :
      /\ (FailedCall(i) /\ (IsOp(i, "getRef") \/ IsOp(i, "createRef"))) =>
           /\ \A j \in CallIdx : ~IsPut(j) /\ ~IsOp(j, "createPullRequest")
           /\ Len(failures) = 1
           /\ failures[1].error = (IF IsOp(i, "getRef") THEN "getRef failed"
                                   ELSE "createRef failed")
           /\ i = Len(calls)
      /\ (FailedCall(i) /\ IsOp(i, "createPullRequest")) =>
           /\ Len(failures) = 1
           /\ failures[1].error = "createPullRequest failed"
           /\ ~HasInfo("Successfully created PR")
           /\ i = Len(calls)

\* C5: the success message is emitted only if the branch was created, every
\* staged file change was committed and the pull request was opened; a run
\* with a failed file commit does not end with the success outcome.
C5_NoPartialSuccess ==
  HasInfo("Successfully created PR") =>
    /\ refs # {}
    /\ Len(prs) >= 1
    /\ \A i \in CallIdx : IsPut(i) => ~FailedCall(i)
    /\ \A k \in 1..Len(fileUpdates) :
         \E c \in 1..Len(commits) : commits[c].path = fileUpdates[k].path

\* C6: every exception raised in run() and handled by no per-file handler
\* becomes exactly one setFailed call that carries its message, and no remote
\* call follows it; the run ends there.
C6_TopLevelGuard ==
  /\ Len(thrown) =< 1
  /\ thrown # <<>> =>
       /\ Done
       /\ Len(failures) = 1
       /\ failures[1].text = "Action failed with error: "
       /\ failures[1].error = thrown[1].error
       /\ Len(calls) = thrown[1].at
  /\ \A i \in CallIdx :
       (FailedCall(i) /\ ~IsOp(i, "getContent") /\ ~(IsPut(i) /\ variant # "main"))
         => Len(thrown) = 1 /\ thrown[1].at = i

\* C6 witness: a remote call raised and the guard reported it
C6_Witness ==
  /\ Done /\ Len(thrown) = 1 /\ Len(failures) = 1
  /\ thrown[1].error = "createPullRequest failed"
  /\ Len(commits) > 0

\* C7: with a required input empty the run fails at once: no directory is
\* listed, no descriptor is read, no remote call is issued.
C7_MissingInputFailsFast ==
  AnyRequiredInputEmpty =>
    /\ pc \in {"start", "done"}
    /\ listed = 0 /\ reads = 0 /\ calls = <<>>
    /\ (Done => /\ Len(failures) = 1
                /\ failures[1].text = "Missing required inputs")

\* C7 witness: only the target repository is empty, and the run has ended
C7_Witness ==
  /\ Done /\ variant = "target"
  /\ inputs.chartName # "" /\ inputs.version # "" /\ inputs.githubToken # ""
  /\ inputs.targetRepo = <<>>
  /\ Len(failures) = 1

\* owner/name: exactly two segments around one '/', neither blank
WellFormedRepo(r) ==
  LET parts == Split(r, "/") IN
  Len(parts) = 2 /\ ~IsBlank(parts[1]) /\ ~IsBlank(parts[2])

\* C8: in the target-repo variant a target repository that is not of the form
\* owner/name makes the run fail without any remote call, and every remote
\* call carries the owner and name of a well-formed coordinate.
C8_MalformedRepoFails ==
  (variant = "target" /\ ~AnyRequiredInputEmpty) =>
    /\ ~WellFormedRepo(inputs.targetRepo) =>
         /\ calls = <<>>
         /\ pc \in {"start", "parseRepo", "done"}
         /\ (Done => Len(failures) = 1)
    /\ calls # <<>> =>
         /\ WellFormedRepo(inputs.targetRepo)
         /\ \A i \in CallIdx :
              /\ calls[i].owner = Split(inputs.targetRepo, "/")[1]
              /\ calls[i].repo = Split(inputs.targetRepo, "/")[2]

\* the directories a pull request body names
BodyCharts(pr) == { pr.body.charts[i].chart : i \in 1..Len(pr.body.charts) }

\* C9: a run creates at most one branch and opens at most one pull request,
\* and that pull request covers all changed directories.
C9_SinglePullRequest ==
  /\ Cardinality(refs) =< 1
  /\ Len(prs) =< 1
  /\ Cardinality({ i \in CallIdx : IsOp(i, "createRef") }) =< 1
  /\ \A p \in 1..Len(prs) :
       { updatedCharts[i] : i \in 1..Len(updatedCharts) } \subseteq BodyCharts(prs[p])

(***************************************************************************)
(* Properties of the patcher (under PatchSpec).                            *)
(***************************************************************************)
Patched == Len(pout) >= 1

\* the list the called function works on, in a parsed document
ListField(fn, doc) == IF fn = "chart" THEN doc.dependencies ELSE doc.releases
RestField(fn, doc) == IF fn = "chart" THEN doc.releases ELSE doc.dependencies

\* the input is a readable, well-formed mapping whose list is a list
HasList ==
  /\ pin.file.readable
  /\ pin.file.text.syntax = "ok"
  /\ pin.file.text.doc.kind = "map"
  /\ ListField(pin.fn, pin.file.text.doc).t = "list"

InItems == ListField(pin.fn, pin.file.text.doc).items

\* an entry whose name equals the target and whose version differs from the
\* target version (both of them strings, as in a well-typed descriptor)
NamedAndStale(e) ==
  /\ e.t = "map"
  /\ e.name = Str(pin.name)
  /\ e.version.t = "str"
  /\ e.version # Str(pin.version)

\* C10: on a descriptor with at least one entry named like the target whose
\* version differs, the patch returns updated = true, and the returned
\* document has the target version in exactly those entries and is the input
\* document in everything else (other entries, other fields, order, the rest
\* of the document).
C10_PatchUpdatesExactlyMatching ==
  (Patched /\ HasList /\ \E i \in 1..Len(InItems) : NamedAndStale(InItems[i])) =>
    /\ pout[1].kind = "ok"
    /\ pout[1].updated
    /\ LET out == YamlParse(pout[1].newContent)
           outItems == ListField(pin.fn, out).items
       IN /\ out.kind = "map"
          /\ out.meta = pin.file.text.doc.meta
          /\ RestField(pin.fn, out) = RestField(pin.fn, pin.file.text.doc)
          /\ Len(outItems) = Len(InItems)
          /\ \A i \in 1..Len(InItems) :
               outItems[i] = IF NamedAndStale(InItems[i])
                             THEN [InItems[i] EXCEPT !.version = Str(pin.version)]
                             ELSE InItems[i]

\* the input is a readable file whose text is well-formed YAML
Parses == pin.file.readable /\ pin.file.text.syntax = "ok"

\* an entry whose name equals the target
Named(e) == e.t = "map" /\ e.name = Str(pin.name)

\* nothing to do: the list is missing, empty or not a list, or no entry is
\* named like the target, or every entry named like it has the target version
NothingToPatch ==
  \/ ~HasList
  \/ \A i \in 1..Len(InItems) :
       Named(InItems[i]) => InItems[i].version = Str(pin.version)

\* C11: on a descriptor with nothing to patch (no entry named like the target,
\* or no list, an empty list, a list that is no list, or every entry named
\* like the target already at the target version) the patch returns exactly
\* {updated: false}, without oldVersion or newContent (nothing was
\* serialized), raises no error, and the aggregator stages nothing for it.
C11_NothingToPatchIsNoOp ==
  (Patched /\ Parses /\ NothingToPatch) =>
    /\ pout[1].kind = "ok"
    /\ pout[1] = NoUpdate
    /\ ~IsStaged(pout[1])

\* C12: a patch that returned updated = true, applied again with the same name
\* and version to the content it returned, returns updated = false (chart and
\* helmfile alike).
C12_PatchIsIdempotent ==
  /\ (Len(pout) >= 1 /\ pout[1].kind = "ok" /\ pout[1].updated) =>
       /\ pout[1].newContent # Undefined
       /\ Patch(pin, [readable |-> TRUE, text |-> pout[1].newContent]) = NoUpdate
  /\ Len(pout) = 2 => pout[2].kind = "ok" /\ ~pout[2].updated

\* C12 witness: a chart with two entries to update was patched, and patched again
C12_Witness ==
  /\ Len(pout) = 2
  /\ pin.fn = "chart"
  /\ HasList /\ Len(InItems) = 2
  /\ \A i \in 1..2 : NamedAndStale(InItems[i])
  /\ pout[1].updated /\ ~pout[2].updated

\* C13: on every document text (malformed, empty, null, scalar or list at the
\* top level, or a mapping) the patch returns an UpdateResult and does not
\* throw; on a parse failure the result is {updated: false}.
C13_PatcherNeverThrows ==
  (Patched /\ pin.file.readable) =>
    /\ pout[1].kind = "ok"
    /\ (pin.file.text.syntax = "bad" => pout[1] = NoUpdate)

(***************************************************************************)
(* Properties of the aggregation (under Spec).                             *)
(***************************************************************************)
\* the aggregation loop was entered
Aggregating == pc \notin {"start", "parseRepo", "scan"} /\ Len(entries) > 0

\* what processing entry e gives
ResultOf(e) == PatchEntry(variant, disk, e, inputs.chartName, inputs.version)

\* the file changes the entries 1..n stage, in order
StagedUpTo(n) ==
  LET staged == SelectSeq(SubSeq(entries, 1, n), LAMBDA e : IsStaged(ResultOf(e)))
  IN [k \in 1..Len(staged) |-> FileUpdate(variant, staged[k], ResultOf(staged[k]))]

\* C14: when processing an entry raises, the error is caught, a warning that
\* names the entry's directory is logged, nothing is staged for that entry,
\* what was staged before is kept, every later entry is still processed, and
\* the run does not fail because of it.
C14_EntryFailureIsTolerated ==
  Aggregating =>
    /\ \A i \in 1..(idx - 1) :
         ResultOf(entries[i]).kind = "throw" =>
           /\ HasWarning("Failed to process chart", entries[i].chartDir)
           /\ \A k \in 1..Len(fileUpdates) : fileUpdates[k].path # RelFilePath(entries[i])
           /\ ~HasFailure(ResultOf(entries[i]).msg)
    /\ fileUpdates = StagedUpTo(idx - 1)
    /\ reads = idx - 1
    /\ pc # "aggregate" => idx = Len(entries) + 1

\* C14 witness: an entry raised between two entries that were staged, and the
\* run went on to open a pull request
C14_Witness ==
  /\ Done /\ Aggregating
  /\ \E i \in 1..Len(entries) :
       /\ ResultOf(entries[i]).kind = "throw"
       /\ \E j \in 1..(i - 1) : IsStaged(ResultOf(entries[j]))
       /\ \E j \in (i + 1)..Len(entries) : IsStaged(ResultOf(entries[j]))
  /\ Len(fileUpdates) = 2
  /\ Len(prs) >= 1

\* the descriptor file of entry e on disk
FileAt(e) == disk.files[<<e.absFilePath.dir, e.absFilePath.base>>]

IsChartEntry(e) == Includes(e.absFilePath.base, CHART_FILE_NAME)

\* the file of entry e is malformed YAML
Malformed(e) == FileAt(e).readable /\ FileAt(e).text.syntax = "bad"

\* the file of entry e is a well-formed mapping
WellFormed(e) ==
  /\ FileAt(e).readable
  /\ FileAt(e).text.syntax = "ok"
  /\ FileAt(e).text.doc.kind = "map"

\* the file of entry e is well-formed and holds the dependency at another version
NeedsUpdate(e) ==
  /\ WellFormed(e)
  /\ LET field == ListField(IF IsChartEntry(e) THEN "chart" ELSE "helmfile",
                            FileAt(e).text.doc)
     IN /\ field.t = "list"
        /\ \E i \in 1..Len(field.items) :
             /\ field.items[i].t = "map"
             /\ field.items[i].name = Str(inputs.chartName)
             /\ field.items[i].version.t = "str"
             /\ field.items[i].version # Str(inputs.version)

NoRemoteError == \A r \in 1..Len(results) : results[r] # "error"

\* the change of entry e was staged, committed to a branch, and a pull
\* request was opened from that branch
Published(e) ==
  /\ \E k \in 1..Len(fileUpdates) : fileUpdates[k].path = RelFilePath(e)
  /\ \E c \in 1..Len(commits) :
       /\ commits[c].path = RelFilePath(e)
       /\ commits[c].content.doc # FileAt(e).text.doc
       /\ \E p \in 1..Len(prs) : prs[p].head = commits[c].branch

NotStaged(e) == \A k \in 1..Len(fileUpdates) : fileUpdates[k].path # RelFilePath(e)

\* every descriptor of directory dir is malformed or a well-formed mapping
OnlyParsedOrMalformed(dir) ==
  \A i \in 1..Len(entries) :
    entries[i].chartDir = dir => (Malformed(entries[i]) \/ WellFormed(entries[i]))

Scanned == ScanReturned /\ pc # "scan"

DescriptorNameSet == { DescriptorNames[b] : b \in 1..Len(DescriptorNames) }

\* C16: the non-recursive scanner returns entries only for first-level
\* directories (never for regular files) whose name starts with the prefix
\* filter; with an empty filter it returns the entries of every first-level
\* directory.
C16_FlatScanKeepsPrefixedDirs ==
  (variant # "target" /\ Scanned) =>
    /\ \A i \in 1..Len(entries) :
         /\ <<entries[i].chartDir>> \in disk.dirs
         /\ entries[i].chartDir \notin disk.plain
         /\ entries[i].absFilePath.dir = <<entries[i].chartDir>>
         /\ StartsWith(entries[i].chartDir, inputs.chartPrefix)
    /\ inputs.chartPrefix = <<>> =>
         \A dir \in disk.dirs, base \in DescriptorNameSet :
           (Len(dir) = 1 /\ <<dir, base>> \in DOMAIN disk.files) =>
             \E i \in 1..Len(entries) :
               entries[i] = [chartDir |-> dir[1],
                             absFilePath |-> [dir |-> dir, base |-> base]]

\* C16 witness: a filter kept one directory and dropped another that holds a descriptor
C16_Witness ==
  /\ variant = "prefix" /\ Scanned
  /\ inputs.chartPrefix = NameAB
  /\ Len(entries) = 1
  /\ IsDescriptorAt(disk, <<NameA>>, DescriptorNames[1])

\* the directories the scanner keeps
Kept(dir) ==
  IF variant = "target" THEN TRUE
  ELSE Len(dir) = 1 /\ StartsWith(dir[1], inputs.chartPrefix)

\* C17: for every kept directory the scanner returns exactly one entry for
\* each of Chart.yaml, Chart.yml, helmfile.yaml, helmfile.yml that exists
\* directly in it and no other entry: no duplicate, no entry for a file that
\* does not exist or has another name; a directory with a chart and a
\* helmfile gives two entries with the same directory name.
C17_OneEntryPerDescriptor ==
  Scanned =>
    /\ \A i \in 1..Len(entries) :
         /\ entries[i].absFilePath.base \in DescriptorNameSet
         /\ entries[i].absFilePath.dir \in disk.dirs
         /\ <<entries[i].absFilePath.dir, entries[i].absFilePath.base>> \in DOMAIN disk.files
         /\ entries[i].chartDir = JoinNames(entries[i].absFilePath.dir)
    /\ \A i, j \in 1..Len(entries) : entries[i] = entries[j] => i = j
    /\ \A dir \in disk.dirs, base \in DescriptorNameSet :
         (Kept(dir) /\ <<dir, base>> \in DOMAIN disk.files) =>
           Cardinality({ i \in 1..Len(entries) :
                           entries[i].absFilePath = [dir |-> dir, base |-> base] }) = 1

\* C17 witness: a directory with a chart and a helmfile gave two entries, and
\* the file named chart.yaml next to helmfile.yml gave none
C17_Witness ==
  /\ Scanned /\ variant = "main" /\ inputs.chartPrefix = <<>>
  /\ Len(entries) = 3
  /\ entries[1].chartDir = NameA /\ entries[2].chartDir = NameA
  /\ entries[1].absFilePath.base = DescriptorNames[1]
  /\ entries[2].absFilePath.base = DescriptorNames[3]
  /\ entries[3].absFilePath.base = DescriptorNames[4]
  /\ OtherFile \in DOMAIN disk.files

(***************************************************************************)
(* Properties of the pull request (under Spec).                            *)
(***************************************************************************)
ChangedDirs == { updatedCharts[i] : i \in 1..Len(updatedCharts) }

\* the directory of a staged file change: its path without the basename
DirOfPath(path) == SubSeq(path, 1, Len(path) - 4)

\* C18: every pull request opened has the new branch as head and the base
\* branch as base, the fixed prefix followed by the dependency name as title,
\* and a body that names every changed directory by its full name and, for
\* each staged file change with an old version, that old version.
C18_PullRequestContents ==
  \A i \in CallIdx :
    IsOp(i, "createPullRequest") =>
      LET pr == calls[i].args IN
      /\ pr.head \in refs
      /\ \E j \in 1..(i - 1) :
           IsOp(j, "createRef") /\ CallBranch(j) = pr.head /\ results[j] = "ok"
      /\ pr.base = BaseBranch
      /\ pr.title = <<PR_TITLE_PREFIX(variant), inputs.chartName>>
      /\ ChangedDirs \subseteq BodyCharts(pr)
      /\ \A k \in 1..Len(fileUpdates) :
           fileUpdates[k].oldVersion # Undefined =>
             \E c \in 1..Len(pr.body.charts) :
               /\ pr.body.charts[c].chart = DirOfPath(fileUpdates[k].path)
               /\ pr.body.charts[c].oldVersion = fileUpdates[k].oldVersion

(***************************************************************************)
(* The local workspace (under Spec).                                       *)
(***************************************************************************)
\* the file a staged change was made from is on disk as it was read: not the
\* patched content, and still in need of the update
DiskKeepsOldContent ==
  \A k \in 1..Len(fileUpdates) :
    \E j \in 1..Len(entries) :
      /\ RelFilePath(entries[j]) = fileUpdates[k].path
      /\ FileAt(entries[j]).text # fileUpdates[k].content
      /\ NeedsUpdate(entries[j])

\* C19: no step of a run writes, creates or deletes a file of the local
\* workspace: the workspace never changes, and the file behind every staged
\* change still holds what was read; patched content is in the staged changes
\* and the remote commits only.
C19_WorkspaceIsNotWritten ==
  /\ [][disk' = disk]_vars
  /\ [](Aggregating => DiskKeepsOldContent)

\* C19 witness: two changes were committed and a pull request was opened, and
\* the files on disk still need the update
C19_Witness ==
  /\ Done /\ Aggregating
  /\ Len(commits) >= 2 /\ Len(prs) >= 1
  /\ DiskKeepsOldContent
  /\ \A k \in 1..Len(fileUpdates) :
       \E c \in 1..Len(commits) : commits[c].content = fileUpdates[k].content

(***************************************************************************)
(* More properties of the patcher (under PatchSpec).                       *)
(***************************************************************************)
StaleIdx == { i \in 1..Len(InItems) : NamedAndStale(InItems[i]) }

LastStale == CHOOSE i \in StaleIdx : \A j \in StaleIdx : j =< i

\* C20: when the list holds several entries named like the target whose
\* versions differ from the target version, one patch call changes all of
\* them, and the oldVersion of the result is the version the last of them had
\* before the patch.
C20_AllMatchesUpdatedLastOldVersion ==
  (Patched /\ HasList /\ Cardinality(StaleIdx) >= 2) =>
    /\ pout[1].kind = "ok"
    /\ pout[1].updated
    /\ \A i \in StaleIdx :
         ListField(pin.fn, YamlParse(pout[1].newContent)).items[i].version
           = Str(pin.version)
    /\ pout[1].oldVersion = InItems[LastStale].version

(***************************************************************************)
(* Properties of the file commits (under Spec).                            *)
(***************************************************************************)
\* the entry a staged path was made from
EntryOfPath(path) == CHOOSE j \in 1..Len(entries) : RelFilePath(entries[j]) = path

\* the version the patch replaced in the file staged at path
OldVersionOf(path) == ResultOf(entries[EntryOfPath(path)]).oldVersion

IsFileCall(i) == IsOp(i, "getContent") \/ IsPut(i)

\* C21: for each staged file change one get-content call for its path on the
\* new branch and then one create-or-update-content call for the same path on
\* the new branch, with the hash the get-content call returned (none when the
\* file is absent), a message naming the dependency, the old and the new
\* version and the path, and the bot as author and committer; no write before
\* its hash was fetched; no call repeated.
C21_OneFetchThenOneCommitPerFile ==
  /\ \A i \in CallIdx :
       IsPut(i) =>
         /\ i > 1
         /\ IsOp(i - 1, "getContent")
         /\ calls[i - 1].args.path = calls[i].args.path
         /\ calls[i - 1].args.ref = calls[i].args.branch
         /\ calls[i].args.branch \in refs
         /\ calls[i].args.sha = (IF results[i - 1] = "sha" THEN Str("sha") ELSE Undefined)
         /\ \E k \in 1..Len(fileUpdates) : fileUpdates[k].path = calls[i].args.path
         /\ calls[i].args.message.dependency = inputs.chartName
         /\ calls[i].args.message.to = inputs.version
         /\ calls[i].args.message.path = calls[i].args.path
         /\ calls[i].args.message.from = OldVersionOf(calls[i].args.path)
         /\ calls[i].args.committer = BOT
         /\ calls[i].args.author = BOT
  /\ \A i, j \in CallIdx :
       (i # j /\ IsFileCall(i) /\ calls[i].op = calls[j].op)
         => calls[i].args.path # calls[j].args.path
  /\ \A i \in CallIdx :
       IsOp(i, "createPullRequest") =>
         \A k \in 1..Len(StagedFor(CallBranch(i))) :
           \E j \in 1..(i - 1) :
             IsPut(j) /\ calls[j].args.path = StagedFor(CallBranch(i))[k].path

\* the number of file changes the bodies of the pull requests p..Len(prs) list
RECURSIVE ListedFrom(_)
ListedFrom(p) ==
  IF p > Len(prs) THEN 0
  ELSE Len(prs[p].body.charts) + ListedFrom(p + 1)

\* C24: each staged file change is consumed once: at most one
\* create-or-update-content call, on one branch, and it is listed in the body
\* of at most one pull request, also when a changed directory lies inside
\* another changed directory.
C24_FileChangeConsumedOnce ==
  /\ \A k \in 1..Len(fileUpdates) :
       Cardinality({ i \in CallIdx :
                       IsPut(i) /\ calls[i].args.path = fileUpdates[k].path }) =< 1
  /\ \A k \in 1..Len(fileUpdates) :
       Cardinality({ calls[i].args.branch :
                       i \in { j \in CallIdx :
                                 IsPut(j) /\ calls[j].args.path = fileUpdates[k].path } }) =< 1
  /\ IF variant = "main" THEN Len(prs) =< 1
     ELSE ListedFrom(1) =< Len(fileUpdates)

\* the position of a path among the staged file changes
StagedIndex(path) == CHOOSE k \in 1..Len(fileUpdates) : fileUpdates[k].path = path

\* C22: at most one remote call is outstanding at any time (a call is issued
\* only after the previous one completed), and the file commits are issued
\* in exactly the order in which the file changes were staged.
C22_OneCallAtATimeInStagedOrder ==
  /\ Outstanding \in {0, 1}
  /\ \A i, j \in CallIdx :
       (i < j /\ IsPut(i) /\ IsPut(j))
         => StagedIndex(calls[i].args.path) < StagedIndex(calls[j].args.path)

\* C23: the recursive scanner applies the prefix filter to the first-level
\* directory names only and descends into every subdirectory at every depth
\* below them; every descriptor found gives one entry whose directory name is
\* the path of its directory from the workspace root; the scan returns on
\* every directory tree.
C23_DeepScanFiltersFirstLevel ==
  (variant = "target" /\ Scanned) =>
    /\ \A i \in 1..Len(entries) :
         /\ StartsWith(entries[i].absFilePath.dir[1], inputs.chartPrefix)
         /\ entries[i].chartDir = JoinNames(entries[i].absFilePath.dir)
    /\ \A dir \in disk.dirs, base \in DescriptorNameSet :
         (StartsWith(dir[1], inputs.chartPrefix)
            /\ <<dir, base>> \in DOMAIN disk.files) =>
           Cardinality({ i \in 1..Len(entries) :
                           entries[i].absFilePath = [dir |-> dir, base |-> base] }) = 1

(***************************************************************************)
(* Properties of two invocations in a row (under RerunSpec).               *)
(***************************************************************************)
\* C25: a second run with the same inputs, on the workspace that holds the
\* merged contents of the first run's pull requests, stages no file change,
\* issues no remote call and ends with the informational outcome.
C25_SecondRunIsNoOp ==
  run = "merged" =>
    /\ fileUpdates = <<>>
    /\ calls = <<>>
    /\ (Done /\ ScanReturned) =>
         /\ failures = <<>>
         /\ Len(infos) = 1
         /\ infos[1].text = "No charts required updating"

\* the names a branch of this run can have
BranchNames ==
  IF variant = "target"
  THEN { DirBranchName(inputs, dir) : dir \in ChangedDirs }
  ELSE { SingleBranchName(inputs) }

\* call i asked to create a branch that was on the remote, and was rejected
RejectedAsPresent(i) ==
  /\ IsOp(i, "createRef")
  /\ FailedCall(i)
  /\ CallBranch(i) \in refs

\* C26: the branch name is a function of the inputs (and of the directory in
\* the per-directory variant); create-ref is issued right after the get-ref of
\* the base branch, with no look-up of the new branch; and a run whose
\* create-ref is rejected because the branch is there ends failed, with no
\* get-content, create-or-update-content or create-pull-request call, and
\* adds nothing to the branch.
C26_ExistingBranchFailsTheRun ==
  /\ \A i \in CallIdx : IsOp(i, "createRef") =>
       /\ CallBranch(i) \in BranchNames
       /\ i > 1
       /\ IsOp(i - 1, "getRef")
       /\ calls[i - 1].args.ref = <<"heads/", BaseBranch>>
  /\ \A i \in CallIdx : RejectedAsPresent(i) =>
       /\ i = Len(calls)
       /\ \A j \in CallIdx :
            /\ ~IsOp(j, "getContent")
            /\ ~IsPut(j)
            /\ ~IsOp(j, "createPullRequest")
       /\ pc = "done"
       /\ HasFailure("createRef failed")
       /\ infos = <<>>

C26_Witness ==
  /\ run = "again"
  /\ pc = "done"
  /\ \E i \in CallIdx : RejectedAsPresent(i)
  /\ \E c \in 1..Len(commits) : commits[c].branch = branchName

(***************************************************************************)
(* Properties of the patch functions, continued (under PatchSpec).         *)
(***************************************************************************)
\* an entry whose name or version is not a string (a number, or missing)
Untyped(e) == e.t = "map" /\ ~(IsString(e.name) /\ IsString(e.version))

\* the only entries named like the target have a version that is no string
OnlyUntypedMatches ==
  /\ HasList
  /\ \E i \in 1..Len(InItems) : Named(InItems[i])
  /\ \A i \in 1..Len(InItems) : Named(InItems[i]) => ~IsString(InItems[i].version)

\* C27: an entry whose name or version is not a string is never modified and
\* never counts as a change, also when its name is the target and its version
\* differs; a descriptor whose only entries named like the target are of this
\* kind yields {updated: false} and no staged change.
C27_UntypedEntriesAreLeftAlone ==
  /\ (Patched /\ HasList /\ pout[1].kind = "ok" /\ pout[1].updated) =>
       LET out == ListField(pin.fn, pout[1].newContent.doc).items IN
       /\ Len(out) = Len(InItems)
       /\ \A i \in 1..Len(InItems) : Untyped(InItems[i]) => out[i] = InItems[i]
       /\ \E i \in 1..Len(InItems) : NamedAndStale(InItems[i])
  /\ (Patched /\ OnlyUntypedMatches) =>
       /\ pout[1] = NoUpdate
       /\ ~IsStaged(pout[1])

\* the same, on the inputs on which the patch function does not raise
C27_WhenNotRaising ==
  /\ (Patched /\ HasList /\ pout[1].kind = "ok" /\ pout[1].updated) =>
       LET out == ListField(pin.fn, pout[1].newContent.doc).items IN
       /\ Len(out) = Len(InItems)
       /\ \A i \in 1..Len(InItems) : Untyped(InItems[i]) => out[i] = InItems[i]
       /\ \E i \in 1..Len(InItems) : NamedAndStale(InItems[i])
  /\ (Patched /\ OnlyUntypedMatches /\ pout[1].kind = "ok") =>
       /\ pout[1] = NoUpdate
       /\ ~IsStaged(pout[1])

(***************************************************************************)
(* Properties of the publication, continued (under Spec).                  *)
(***************************************************************************)
\* the get-content call i got no sha: the call failed or the response had none
NoShaFor(i) ==
  IsOp(i, "getContent") /\ Settled(i) /\ results[i] \in {"nosha", "error"}

\* C28: the look-up of a file's sha never raises; after a failed get-content
\* call and after a response without a sha alike, the run goes on to the
\* create-or-update-content call of the same file on the same branch, with no
\* sha in it.
C28_FailedLookupIsAbsent ==
  \A i \in CallIdx : (IsOp(i, "getContent") /\ Settled(i)) =>
    /\ \A k \in 1..Len(thrown) : thrown[k].at # i
    /\ IF i = Len(calls)
       THEN /\ pc = "put"
            /\ NoShaFor(i) => fileSha = Undefined
       ELSE /\ IsPut(i + 1)
            /\ calls[i + 1].args.path = calls[i].args.path
            /\ calls[i + 1].args.branch = calls[i].args.ref
            /\ NoShaFor(i) <=> calls[i + 1].args.sha = Undefined

C28_Witness ==
  \E i, j \in CallIdx :
    /\ IsOp(i, "getContent") /\ Settled(i) /\ results[i] = "error"
    /\ IsOp(j, "getContent") /\ Settled(j) /\ results[j] = "nosha"
    /\ Settled(i + 1) /\ results[i + 1] = "ok"
    /\ Settled(j + 1)
    /\ calls[i + 1].args.sha = Undefined /\ calls[j + 1].args.sha = Undefined

\* the directories of the staged file changes
StagedDirs == { DirOfPath(fileUpdates[k].path) : k \in 1..Len(fileUpdates) }

\* C29: at every point of the aggregation and after it the changed directories
\* are the directories of the staged changes; every staged change comes from
\* one scanned descriptor whose patch returned updated = true with content, and
\* has the path directory + '/' + basename; no descriptor is staged twice; so
\* in the per-directory variant every changed directory has a staged change and
\* the warning 'No file updates found for chart directory' is never given.
C29_ChangedDirsAreStagedDirs ==
  Aggregating =>
    /\ ChangedDirs = StagedDirs
    /\ \A k \in 1..Len(fileUpdates) :
         \E e \in 1..Len(entries) :
           /\ e < idx
           /\ fileUpdates[k].path =
                entries[e].chartDir \o <<"/">> \o entries[e].absFilePath.base
           /\ LET res == ResultOf(entries[e]) IN
                /\ res.kind = "ok"
                /\ res.updated
                /\ res.newContent # Undefined
                /\ fileUpdates[k].content = res.newContent
    /\ \A k, l \in 1..Len(fileUpdates) :
         fileUpdates[k].path = fileUpdates[l].path => k = l
    /\ \A dir \in ChangedDirs : Len(UpdatesOfDir(fileUpdates, dir)) >= 1
    /\ \A w \in 1..Len(warnings) :
         warnings[w].text # "No file updates found for chart directory"

C29_Witness ==
  /\ variant = "target"
  /\ pc = "done"
  /\ Len(updatedCharts) = 2
  /\ Len(fileUpdates) = 3
  /\ Len(entries) > Len(fileUpdates)
  /\ Len(prs) = 2

\* call i is a branch creation (get-ref, create-ref) or a pull request
\* creation, and it failed
StructuralFailure(i) ==
  /\ IsOp(i, "getRef") \/ IsOp(i, "createRef") \/ IsOp(i, "createPullRequest")
  /\ FailedCall(i)

====
